---- MODULE Spec2Model ----
(***************************************************************************)
(* A model of the order state machine of django-state-machine-demo:        *)
(* Order.transition_state (orders/models.py), the hook registry of         *)
(* HooksMixin (utils/enums.py) and the hooks registered in orders/hooks.py.*)
(*                                                                         *)
(* One order row lives in the database (db, logs).  Each process of Procs  *)
(* holds its own in-memory Order object (mem[p]) loaded from that row.     *)
(* transition_state is modelled statement by statement: the program        *)
(* counter pc[p] names the statement the call of process p is about to     *)
(* run.  Optional values (Python None / an absent keyword or key) are      *)
(* written <<>> and a present value v is written <<v>>.  Prices are        *)
(* integers in units of 1/10000 of the currency unit.                      *)
(***************************************************************************)
EXTENDS Integers, Sequences, FiniteSets, TLC

VARIABLES
    mem,        \* mem[p]: the in-memory Order object of process p
    db,         \* the persisted row of the order (table "orders")
    logs,       \* the persisted OrderLog rows of the order, in creation order
    now,        \* the wall clock
    pc,         \* pc[p]: where process p is inside transition_state
    call,       \* call[p]: arguments and locals of p's call while it runs
    trace,      \* trace[p]: what p's current / last call has executed so far
    result,     \* result[p]: p's last call: its target, the state it started
                \* from, and how it ended ("running" while inside)
    history,    \* the transitions that reached line 50, with the state they left
    accepted_at,\* the clock when the latest transition reached line 50
    failures,   \* how many persistence failures have been injected
    enum_field  \* an EnumField(State) seen on its own: the attribute value, the
                \* stored column, and the value the column was prepared from

vars == <<mem, db, logs, now, pc, call, trace, result, history, accepted_at, failures,
          enum_field>>

----------------------------------------------------------------------------
(* Bounds of the model *)

\* the clock runs from 0 to MaxTime
MaxTime == 1
\* at most MaxFailures failing save() / logs.create() calls are injected
MaxFailures == 1

\* two callers start calls only while fewer than MaxConcCommits saves were made
MaxConcCommits == 2

Procs == {1, 2}

----------------------------------------------------------------------------
(* Order.State: the members are str instances, modelled by their values *)

PENDING_PAYMENT == "pending_payment"
PROCESSING == "processing"
OUT_FOR_DELIVERY == "out_for_delivery"
DELIVERED == "delivered"
CANCELLED == "cancelled"
REFUNDED == "refunded"

State == {PENDING_PAYMENT, PROCESSING, OUT_FOR_DELIVERY, DELIVERED, CANCELLED, REFUNDED}

None == <<>>
Some(v) == <<v>>

\* membership in a Python tuple
InTuple(x, t) == \E i \in 1..Len(t) : t[i] = x

\* faulty variant: PROCESSING also lists DELIVERED
state_map_extra_edge ==
    [s \in {PENDING_PAYMENT, PROCESSING, OUT_FOR_DELIVERY, DELIVERED} |->
        CASE s = PENDING_PAYMENT -> <<PROCESSING, CANCELLED>>
          [] s = PROCESSING -> <<OUT_FOR_DELIVERY, DELIVERED, REFUNDED>>
          [] s = OUT_FOR_DELIVERY -> <<DELIVERED, REFUNDED>>
          [] s = DELIVERED -> <<REFUNDED>>]

\* faulty variant: the entry of DELIVERED is missing
state_map_missing_entry ==
    [s \in {PENDING_PAYMENT, PROCESSING, OUT_FOR_DELIVERY} |->
        CASE s = PENDING_PAYMENT -> <<PROCESSING, CANCELLED>>
          [] s = PROCESSING -> <<OUT_FOR_DELIVERY, REFUNDED>>
          [] s = OUT_FOR_DELIVERY -> <<DELIVERED, REFUNDED>>]

\* faulty variant: a refunded order may be opened again
state_map_reopen ==
    [s \in {PENDING_PAYMENT, PROCESSING, OUT_FOR_DELIVERY, DELIVERED, REFUNDED} |->
        CASE s = PENDING_PAYMENT -> <<PROCESSING, CANCELLED>>
          [] s = PROCESSING -> <<OUT_FOR_DELIVERY, REFUNDED>>
          [] s = OUT_FOR_DELIVERY -> <<DELIVERED, REFUNDED>>
          [] s = DELIVERED -> <<REFUNDED>>
          [] s = REFUNDED -> <<PENDING_PAYMENT>>]

\* Order._state_map
state_map ==
    [s \in {PENDING_PAYMENT, PROCESSING, OUT_FOR_DELIVERY, DELIVERED} |->
        CASE s = PENDING_PAYMENT -> <<PROCESSING, CANCELLED>>
          [] s = PROCESSING -> <<OUT_FOR_DELIVERY, REFUNDED>>
          [] s = OUT_FOR_DELIVERY -> <<DELIVERED, REFUNDED>>
          [] s = DELIVERED -> <<REFUNDED>>]

\* faulty variant: a state without an entry allows every state
get_possible_next_states_default_all(order) ==
    IF order.state \in DOMAIN state_map THEN state_map[order.state]
    ELSE <<PENDING_PAYMENT, PROCESSING, OUT_FOR_DELIVERY, DELIVERED, CANCELLED, REFUNDED>>

\* Order.get_possible_next_states: self._state_map.get(self.state, ())
get_possible_next_states(order) ==
    IF order.state \in DOMAIN state_map THEN state_map[order.state] ELSE <<>>

----------------------------------------------------------------------------
(* HooksMixin: the registry of each member, self._hooks: name -> list *)

\* HooksMixin.__init__: self._hooks = {}
EmptyHooks == [s \in State |-> <<>>]

\* faulty variant: the new hook goes to the front of the list
register_hook_prepend(hooks, m, name, func) ==
    IF name \in DOMAIN hooks[m]
    THEN [hooks EXCEPT ![m] = [@ EXCEPT ![name] = <<func>> \o @]]
    ELSE [hooks EXCEPT ![m] = [n \in DOMAIN @ \cup {name} |->
                                  IF n = name THEN <<func>> ELSE @[n]]]

\* m.register_hook(name)(func): create the list on first use, append func
register_hook(hooks, m, name, func) ==
    IF name \in DOMAIN hooks[m]
    THEN [hooks EXCEPT ![m] = [@ EXCEPT ![name] = Append(@, func)]]
    ELSE [hooks EXCEPT ![m] = [n \in DOMAIN @ \cup {name} |->
                                  IF n = name THEN <<func>> ELSE @[n]]]

\* orders/hooks.py: the registrations in the order the module body runs them
\* (stacked decorators apply bottom-up: REFUNDED before CANCELLED)
Registrations ==
    << <<PROCESSING, "before", "validate_payment_method">>,
       <<PROCESSING, "before", "apply_discount">>,
       <<PROCESSING, "after", "notify_payment_success">>,
       <<OUT_FOR_DELIVERY, "before", "validate_delivery_date">>,
       <<OUT_FOR_DELIVERY, "after", "notify_out_for_delivery">>,
       <<DELIVERED, "after", "notify_delivery_success">>,
       <<REFUNDED, "after", "send_questionnaire">>,
       <<CANCELLED, "after", "send_questionnaire">> >>

RECURSIVE HooksAfter(_)
HooksAfter(n) ==
    IF n = 0 THEN EmptyHooks
    ELSE register_hook(HooksAfter(n - 1), Registrations[n][1],
                       Registrations[n][2], Registrations[n][3])

\* the registry once OrdersConfig.ready has imported orders/hooks.py
Hooks == HooksAfter(Len(Registrations))

\* faulty variant: one registry shared by all the members, so a name yields
\* the hooks every member registered under it
HookList_shared(m, name) ==
    LET RECURSIVE Collect(_)
        Collect(n) ==
            IF n = 0 THEN <<>>
            ELSE Collect(n - 1) \o (IF Registrations[n][2] = name
                                     THEN <<Registrations[n][3]>> ELSE <<>>)
    IN  Collect(Len(Registrations))

\* the list execute_hooks iterates: nothing when the name was never registered
HookList(m, name) ==
    IF name \in DOMAIN Hooks[m] THEN Hooks[m][name] ELSE <<>>

----------------------------------------------------------------------------
(* utils/enums.py as functions of Python values.  A Python value is a      *)
(* record [type, v]: a member of State (v: the member's name), a str (v:   *)
(* its characters), an int (v: its digits) or None (v: "").  A member is a *)
(* str object too: ChoicesEnum.__new__ builds it with str.__new__(cls,     *)
(* value[0]), so its characters are its value.                             *)

PyMember(name) == [type |-> "State", v |-> name]
PyStr(chars) == [type |-> "str", v |-> chars]
PyInt(digits) == [type |-> "int", v |-> digits]
PyNone == [type |-> "NoneType", v |-> ""]

\* Order.State: the members in definition order, as <<name, value>>
Members ==
    << <<"PENDING_PAYMENT", PENDING_PAYMENT>>,
       <<"PROCESSING", PROCESSING>>,
       <<"OUT_FOR_DELIVERY", OUT_FOR_DELIVERY>>,
       <<"DELIVERED", DELIVERED>>,
       <<"CANCELLED", CANCELLED>>,
       <<"REFUNDED", REFUNDED>> >>

\* e.value of the member called name
ValueOf(name) ==
    LET n == CHOOSE i \in 1..Len(Members) : Members[i][1] = name
    IN  Members[n][2]

\* faulty variant: str() of a member is Enum's "Class.NAME"
py_str_enum_name(value) ==
    IF value.type = "State" THEN "State." \o value.v ELSE value.v

\* str(value) of a str or a member: the characters; the metaclass reports
\* tuple as the member type, so __str__ stays str.__str__
py_str(value) ==
    IF value.type = "State" THEN ValueOf(value.v) ELSE value.v

\* isinstance(value, str): members are str objects
IsStr(value) == value.type \in {"State", "str"}

\* faulty variant: a str is compared with the names of the members
is_valid_by_name(value) ==
    IF value.type = "State" THEN TRUE
    ELSE IF value.type = "str"
    THEN \E i \in 1..Len(Members) : value.v = Members[i][1]
    ELSE FALSE

\* ChoicesEnum.is_valid
is_valid(value) ==
    IF value.type = "State" THEN TRUE
    ELSE IF value.type = "str"
    THEN \E i \in 1..Len(Members) : value.v = Members[i][2]
    ELSE FALSE

\* enum_cls(value) for a valid value: the member itself, or the member that
\* has these characters as its value
EnumCall(value) ==
    IF value.type = "State" THEN value
    ELSE LET n == CHOOSE i \in 1..Len(Members) : Members[i][2] = value.v
         IN  PyMember(Members[n][1])

\* EnumField.to_python; the field is not blank, so "" takes no shortcut
to_python(value) ==
    IF value = PyNone THEN PyNone
    ELSE IF ~is_valid(value) THEN value
    ELSE EnumCall(value)

\* EnumField.from_db_value
from_db_value(value) == to_python(value)

\* EnumField.get_prep_value: CharField.get_prep_value passes the value
\* through to_python first; the outcome is the column value and the error
get_prep_value(value) ==
    LET prepared == to_python(value)
    IN  IF prepared = PyNone THEN [value |-> PyNone, error |-> ""]
        ELSE IF ~IsStr(prepared)
        THEN [value |-> PyNone,
              error |-> "TypeError: Field Value Type should be str or ChoicesEnum"]
        ELSE [value |-> PyStr(py_str(prepared)), error |-> ""]

\* the Python values tried as the attribute: every member, every member's
\* value, strings that are no member's value, an int and None
OtherStrings == {"bogus", "PROCESSING", "Package Delivered", ""}

PyValues ==
    {PyMember(Members[i][1]) : i \in 1..Len(Members)}
       \cup {PyStr(Members[i][2]) : i \in 1..Len(Members)}
       \cup {PyStr(c) : c \in OtherStrings}
       \cup {PyInt("3"), PyNone}

\* an instance whose attribute holds value: nothing stored yet
NewField(value) ==
    [value |-> value, column |-> PyNone, origin |-> PyNone,
     loaded |-> FALSE, error |-> ""]

----------------------------------------------------------------------------
(* orders/hooks.py: each hook maps (order, kwargs, clock) to the order it  *)
(* leaves behind and the error it raises ("" when it returns)              *)

Returns(order) == [order |-> order, error |-> ""]
Raises(order, error) == [order |-> order, error |-> error]

\* faulty variant: the payment method is validated but not recorded
validate_payment_method_no_write(order, kwargs) ==
    IF kwargs.payment_method \notin {Some("cash"), Some("card")}
    THEN Raises(order, "ValueError: Invalid payment method")
    ELSE Returns(order)

validate_payment_method(order, kwargs) ==
    IF kwargs.payment_method \notin {Some("cash"), Some("card")}
    THEN Raises(order, "ValueError: Invalid payment method")
    ELSE Returns([order EXCEPT !.metadata.payment_method = kwargs.payment_method])

\* order.price * (1 - discount / 100): the right operand is a float, so a
\* Decimal price (any order loaded from the database) raises TypeError
apply_discount(order, kwargs) ==
    IF kwargs.discount = None THEN Returns(order)
    ELSE LET discount == kwargs.discount[1] IN
         IF ~(0 <= discount /\ discount <= 100)
         THEN Raises(order, "ValueError: Invalid discount percentage")
         ELSE IF order.price.kind = "Decimal"
         THEN Raises(order, "TypeError: Decimal * float")
         ELSE Returns([order EXCEPT
                          !.price.val = (@ * (100 - discount)) \div 100,
                          !.metadata.discount = Some(discount)])

validate_delivery_date(order, kwargs, clock) ==
    IF kwargs.delivery_date = None
    THEN Raises(order, "ValueError: Delivery date is required")
    ELSE IF kwargs.delivery_date[1] < clock
    THEN Raises(order, "ValueError: Delivery date must be in the future")
    ELSE Returns([order EXCEPT !.metadata.delivery_date = kwargs.delivery_date])

\* the "after" hooks only print
notify_payment_success(order, kwargs) == Returns(order)
notify_out_for_delivery(order, kwargs) == Returns(order)
notify_delivery_success(order, kwargs) == Returns(order)
send_questionnaire(order, kwargs) == Returns(order)

\* hook(*args, **kwargs) for the registered function called func
CallHook(func, order, kwargs, clock) ==
    CASE func = "validate_payment_method" -> validate_payment_method(order, kwargs)
      [] func = "apply_discount" -> apply_discount(order, kwargs)
      [] func = "validate_delivery_date" -> validate_delivery_date(order, kwargs, clock)
      [] func = "notify_payment_success" -> notify_payment_success(order, kwargs)
      [] func = "notify_out_for_delivery" -> notify_out_for_delivery(order, kwargs)
      [] func = "notify_delivery_success" -> notify_delivery_success(order, kwargs)
      [] func = "send_questionnaire" -> send_questionnaire(order, kwargs)

----------------------------------------------------------------------------
(* The Order row and the in-memory Order object *)

NoMetadata == [payment_method |-> None, discount |-> None, delivery_date |-> None]

\* DecimalField(max_digits=8, decimal_places=2): the stored price is the value
\* rounded half-even to two decimal places
QuantizePrice(val) ==
    LET q == val \div 100
        r == val % 100
    IN  100 * (IF r > 50 \/ (r = 50 /\ q % 2 = 1) THEN q + 1 ELSE q)

\* faulty variant: the field default is not a member of Order.State
NewOrder_bad_default(kind, val, clock) ==
    [state |-> "pending", monitored |-> "pending", state_changed |-> clock,
     price |-> [kind |-> kind, val |-> val], metadata |-> NoMetadata]

\* a new Order(price=...): state is the field default, state_changed is the
\* creation time, metadata is dict(); monitored is MonitorField's record of
\* the state it last saw
NewOrder(kind, val, clock) ==
    [state |-> PENDING_PAYMENT, monitored |-> PENDING_PAYMENT, state_changed |-> clock,
     price |-> [kind |-> kind, val |-> val], metadata |-> NoMetadata]

\* the columns save() writes for an Order object
Row(order) ==
    [state |-> order.state, state_changed |-> order.state_changed,
     price |-> QuantizePrice(order.price.val), metadata |-> order.metadata]

\* the Order object the ORM builds from the row: the price is a Decimal
Load(row) ==
    [state |-> row.state, monitored |-> row.state, state_changed |-> row.state_changed,
     price |-> [kind |-> "Decimal", val |-> row.price], metadata |-> row.metadata]

\* faulty variant: the change of the monitored field is noted but the clock is not stamped
MonitorPreSave_no_stamp(order, clock) ==
    [order EXCEPT !.monitored = order.state]

\* MonitorField("State Changed", monitor="state").pre_save: stamp the clock
\* when the monitored field differs from the value last seen
MonitorPreSave(order, clock) ==
    IF order.monitored # order.state
    THEN [order EXCEPT !.state_changed = clock, !.monitored = order.state]
    ELSE order

\* faulty variant: the row records the state after the assignment as old_state
LogRow_old_is_new(old_state, new_state, kwargs, clock) ==
    [old_state |-> new_state, new_state |-> new_state, extra |-> kwargs,
     timestamp |-> clock]

\* self.logs.create(old_state=..., new_state=..., extra=kwargs); timestamp is
\* an AutoCreatedField
LogRow(old_state, new_state, kwargs, clock) ==
    [old_state |-> old_state, new_state |-> new_state, extra |-> kwargs,
     timestamp |-> clock]

----------------------------------------------------------------------------
(* The inputs of transition_state *)

\* new_state: a member of Order.State, or a plain str (which compares equal to
\* the member with that value but has no execute_hooks)
Targets ==
    [value : State, is_enum : {TRUE}] \cup [value : {PROCESSING, "bogus"}, is_enum : {FALSE}]

Kw(pm, d, dd) == [payment_method |-> pm, discount |-> d, delivery_date |-> dd]

\* **kwargs: an absent keyword is None
KwargsSet ==
    { Kw(None, None, None),
      Kw(Some("cash"), None, None),
      Kw(Some("card"), Some(10), None),
      Kw(Some("cash"), Some(150), None),
      Kw(Some("paypal"), Some(10), None),
      Kw(None, None, Some(0)) }

InitialPrices == {100000, 99900}

\* no call is running: the frame of transition_state does not exist
NoCall == [new_state |-> "", kwargs |-> Kw(None, None, None), old_state |-> "", i |-> 0]

Outcome(old_state, new_state, error) ==
    [old_state |-> old_state, new_state |-> new_state, error |-> error]

OrderInit ==
    /\ \E kind \in {"Decimal", "float"}, val \in InitialPrices :
          /\ mem = [p \in Procs |->
                      IF p = 1 THEN NewOrder(kind, val, 0)
                      ELSE Load(Row(NewOrder(kind, val, 0)))]
          /\ db = Row(NewOrder(kind, val, 0))
    /\ logs = <<>>
    /\ now = 0
    /\ pc = [p \in Procs |-> "idle"]
    /\ call = [p \in Procs |-> NoCall]
    /\ trace = [p \in Procs |-> <<>>]
    /\ result = [p \in Procs |-> Outcome("", "", "none")]
    /\ history = <<>>
    /\ accepted_at = None
    /\ failures = 0

\* the state after construction: a new Order, nothing running
Init ==
    /\ OrderInit
    /\ enum_field = NewField(PyMember("PENDING_PAYMENT"))

----------------------------------------------------------------------------
(* Order.transition_state, statement by statement *)

\* lines 43-46: capture old_state, validate the target; a str target passes
\* the membership test by value and then fails on new_state.execute_hooks
BeginTransition(p, new_state, kwargs) ==
    /\ pc[p] = "idle"
    /\ trace' = [trace EXCEPT ![p] = <<>>]
    /\ IF ~InTuple(new_state.value, get_possible_next_states(mem[p]))
       THEN /\ result' = [result EXCEPT ![p] =
                   Outcome(mem[p].state, new_state.value, "ValueError: Can't transition")]
            /\ UNCHANGED <<pc, call>>
       ELSE IF ~new_state.is_enum
       THEN /\ result' = [result EXCEPT ![p] =
                   Outcome(mem[p].state, new_state.value, "AttributeError: execute_hooks")]
            /\ UNCHANGED <<pc, call>>
       ELSE /\ result' = [result EXCEPT ![p] =
                   Outcome(mem[p].state, new_state.value, "running")]
            /\ call' = [call EXCEPT ![p] = [new_state |-> new_state.value, kwargs |-> kwargs,
                                            old_state |-> mem[p].state, i |-> 1]]
            /\ pc' = [pc EXCEPT ![p] = "before"]
    /\ UNCHANGED <<mem, db, logs, now, history, accepted_at, failures, enum_field>>

\* faulty variant: the exception of a hook is swallowed and the loop goes on
Raise_swallowed(p, error) ==
    /\ call' = [call EXCEPT ![p].i = @ + 1]
    /\ UNCHANGED <<pc, result>>

\* an exception leaves transition_state: the frame is gone, the caller sees error
Raise(p, error) ==
    /\ pc' = [pc EXCEPT ![p] = "idle"]
    /\ call' = [call EXCEPT ![p] = NoCall]
    /\ result' = [result EXCEPT ![p].error = error]

\* line 48 and execute_hooks: one iteration of the loop over the "before" hooks;
\* an exception leaves the loop and the call
ExecuteBeforeHook(p) ==
    /\ pc[p] = "before"
    /\ call[p].i <= Len(HookList(call[p].new_state, "before"))
    /\ LET func == HookList(call[p].new_state, "before")[call[p].i]
           r == CallHook(func, mem[p], call[p].kwargs, now)
       IN  /\ mem' = [mem EXCEPT ![p] = r.order]
           /\ trace' = [trace EXCEPT ![p] = Append(@, func)]
           /\ IF r.error # ""
              THEN Raise(p, r.error)
              ELSE /\ call' = [call EXCEPT ![p].i = @ + 1]
                   /\ UNCHANGED <<pc, result>>
    /\ UNCHANGED <<db, logs, now, history, accepted_at, failures, enum_field>>

\* faulty variant: the save is refused when the row no longer holds the state
\* the call started from
Commit_version_checked(p) ==
    /\ pc[p] = "before"
    /\ call[p].i > Len(HookList(call[p].new_state, "before"))
    /\ IF db.state = call[p].old_state
       THEN /\ LET assigned == [mem[p] EXCEPT !.state = call[p].new_state]
                   saved == MonitorPreSave(assigned, now)
               IN  /\ mem' = [mem EXCEPT ![p] = saved]
                   /\ db' = Row(saved)
            /\ history' = Append(history, [old_state |-> mem[p].state,
                                           new_state |-> call[p].new_state,
                                           extra |-> call[p].kwargs])
            /\ accepted_at' = Some(now)
            /\ trace' = [trace EXCEPT ![p] = Append(@, "save")]
            /\ pc' = [pc EXCEPT ![p] = "log"]
            /\ UNCHANGED <<logs, now, call, result, failures, enum_field>>
       ELSE /\ Raise(p, "ConflictError")
            /\ UNCHANGED <<mem, db, logs, now, trace, history, accepted_at, failures, enum_field>>

\* faulty variant: the save writes the state columns only (update_fields)
Commit_saves_state_only(p) ==
    /\ pc[p] = "before"
    /\ call[p].i > Len(HookList(call[p].new_state, "before"))
    /\ LET assigned == [mem[p] EXCEPT !.state = call[p].new_state]
           saved == MonitorPreSave(assigned, now)
       IN  /\ mem' = [mem EXCEPT ![p] = saved]
           /\ db' = [db EXCEPT !.state = Row(saved).state,
                               !.state_changed = Row(saved).state_changed]
    /\ history' = Append(history, [old_state |-> mem[p].state,
                                   new_state |-> call[p].new_state,
                                   extra |-> call[p].kwargs])
    /\ accepted_at' = Some(now)
    /\ trace' = [trace EXCEPT ![p] = Append(@, "save")]
    /\ pc' = [pc EXCEPT ![p] = "log"]
    /\ UNCHANGED <<logs, now, call, result, failures, enum_field>>

\* lines 50-51, once the "before" loop is over: self.state = new_state; self.save()
Commit(p) ==
    /\ pc[p] = "before"
    /\ call[p].i > Len(HookList(call[p].new_state, "before"))
    /\ LET assigned == [mem[p] EXCEPT !.state = call[p].new_state]
           saved == MonitorPreSave(assigned, now)
       IN  /\ mem' = [mem EXCEPT ![p] = saved]
           /\ db' = Row(saved)
    /\ history' = Append(history, [old_state |-> mem[p].state,
                                   new_state |-> call[p].new_state,
                                   extra |-> call[p].kwargs])
    /\ accepted_at' = Some(now)
    /\ trace' = [trace EXCEPT ![p] = Append(@, "save")]
    /\ pc' = [pc EXCEPT ![p] = "log"]
    /\ UNCHANGED <<logs, now, call, result, failures, enum_field>>

\* line 53: self.logs.create(old_state=old_state, new_state=new_state, extra=kwargs)
CreateLog(p) ==
    /\ pc[p] = "log"
    /\ logs' = Append(logs, LogRow(call[p].old_state, call[p].new_state, call[p].kwargs, now))
    /\ trace' = [trace EXCEPT ![p] = Append(@, "log")]
    /\ pc' = [pc EXCEPT ![p] = "after"]
    /\ call' = [call EXCEPT ![p].i = 1]
    /\ UNCHANGED <<mem, db, now, result, history, accepted_at, failures, enum_field>>

\* line 55 and execute_hooks: one iteration of the loop over the "after" hooks
ExecuteAfterHook(p) ==
    /\ pc[p] = "after"
    /\ call[p].i <= Len(HookList(call[p].new_state, "after"))
    /\ LET func == HookList(call[p].new_state, "after")[call[p].i]
           r == CallHook(func, mem[p], call[p].kwargs, now)
       IN  /\ mem' = [mem EXCEPT ![p] = r.order]
           /\ trace' = [trace EXCEPT ![p] = Append(@, func)]
           /\ IF r.error # ""
              THEN Raise(p, r.error)
              ELSE /\ call' = [call EXCEPT ![p].i = @ + 1]
                   /\ UNCHANGED <<pc, result>>
    /\ UNCHANGED <<db, logs, now, history, accepted_at, failures, enum_field>>

\* faulty variant: the order is saved once more when the "after" hooks are done
Return_resaves(p) ==
    /\ pc[p] = "after"
    /\ call[p].i > Len(HookList(call[p].new_state, "after"))
    /\ pc' = [pc EXCEPT ![p] = "idle"]
    /\ call' = [call EXCEPT ![p] = NoCall]
    /\ result' = [result EXCEPT ![p].error = "ok"]
    /\ db' = Row(mem[p])
    /\ UNCHANGED <<mem, logs, now, trace, history, accepted_at, failures, enum_field>>

\* the "after" loop is over: transition_state returns
Return(p) ==
    /\ pc[p] = "after"
    /\ call[p].i > Len(HookList(call[p].new_state, "after"))
    /\ pc' = [pc EXCEPT ![p] = "idle"]
    /\ call' = [call EXCEPT ![p] = NoCall]
    /\ result' = [result EXCEPT ![p].error = "ok"]
    /\ UNCHANGED <<mem, db, logs, now, trace, history, accepted_at, failures, enum_field>>

\* the caller calls transition_state with some target and keyword arguments
TransitionState(p) ==
    \E new_state \in Targets, kwargs \in KwargsSet : BeginTransition(p, new_state, kwargs)

\* between calls the caller may load the order afresh, as OrderAdmin does on
\* every request
Reload(p) ==
    /\ pc[p] = "idle"
    /\ mem' = [mem EXCEPT ![p] = Load(db)]
    /\ UNCHANGED <<db, logs, now, pc, call, trace, result, history, accepted_at, failures, enum_field>>

\* time passes
Tick ==
    /\ now < MaxTime
    /\ now' = now + 1
    /\ UNCHANGED <<mem, db, logs, pc, call, trace, result, history, accepted_at, failures, enum_field>>

\* one caller owns the order: the calls are sequential
Next ==
    \/ TransitionState(1)
    \/ ExecuteBeforeHook(1)
    \/ Commit(1)
    \/ CreateLog(1)
    \/ ExecuteAfterHook(1)
    \/ Return(1)
    \/ Reload(1)
    \/ Tick

Spec == Init /\ [][Next]_vars

----------------------------------------------------------------------------
(* Persistence failures: save() or logs.create() raises.  transition_state *)
(* opens no transaction and catches nothing, so what was written stays.    *)

\* line 51 raises: self.state was assigned on line 50 and pre_save has run,
\* the row is not written
SaveFails(p) ==
    /\ pc[p] = "before"
    /\ call[p].i > Len(HookList(call[p].new_state, "before"))
    /\ failures < MaxFailures
    /\ failures' = failures + 1
    /\ mem' = [mem EXCEPT ![p] =
                  MonitorPreSave([mem[p] EXCEPT !.state = call[p].new_state], now)]
    /\ Raise(p, "DatabaseError: save")
    /\ UNCHANGED <<db, logs, now, trace, history, accepted_at, enum_field>>

\* line 53 raises (the database fails, or a keyword value is not JSON
\* serialisable): the save of line 51 is already in the database
CreateLogFails(p) ==
    /\ pc[p] = "log"
    /\ failures < MaxFailures
    /\ failures' = failures + 1
    /\ Raise(p, "DatabaseError: logs.create")
    /\ UNCHANGED <<mem, db, logs, now, trace, history, accepted_at, enum_field>>

NextFail ==
    \/ Next
    \/ SaveFails(1)
    \/ CreateLogFails(1)

SpecFail == Init /\ [][NextFail]_vars

----------------------------------------------------------------------------
(* "After" hooks beyond those of orders/hooks.py.  The registry is open:   *)
(* any code may register a callback, and a callback may change the order   *)
(* it is handed.  The shipped "after" hooks print (and one sets the        *)
(* locale), which raises when the stream or the locale is unusable.        *)

\* a callback registered by other code under (DELIVERED, "after"), after
\* those of orders/hooks.py: it changes the order in place
client_after_hook(order, kwargs) ==
    Returns([order EXCEPT !.metadata.discount = Some(0)])

\* execute_hooks reaches that callback: hook(*args, **kwargs)
ClientAfterHook(p) ==
    /\ pc[p] = "after"
    /\ call[p].new_state = DELIVERED
    /\ call[p].i = Len(HookList(call[p].new_state, "after")) + 1
    /\ mem' = [mem EXCEPT ![p] = client_after_hook(mem[p], call[p].kwargs).order]
    /\ trace' = [trace EXCEPT ![p] = Append(@, "client_after_hook")]
    /\ call' = [call EXCEPT ![p].i = @ + 1]
    /\ UNCHANGED <<db, logs, now, pc, result, history, accepted_at, failures, enum_field>>

\* faulty variant: the failure of an "after" hook undoes the save and the log row
AfterHookRaises_rolls_back(p) ==
    /\ pc[p] = "after"
    /\ call[p].i <= Len(HookList(call[p].new_state, "after"))
    /\ trace' = [trace EXCEPT ![p] =
                    Append(@, HookList(call[p].new_state, "after")[call[p].i])]
    /\ Raise(p, "Error: after hook")
    /\ db' = [db EXCEPT !.state = call[p].old_state]
    /\ logs' = SubSeq(logs, 1, Len(logs) - 1)
    /\ UNCHANGED <<mem, now, history, accepted_at, failures, enum_field>>

\* an "after" hook raises (print or locale.setlocale fails): the exception
\* leaves execute_hooks and transition_state
AfterHookRaises(p) ==
    /\ pc[p] = "after"
    /\ call[p].i <= Len(HookList(call[p].new_state, "after"))
    /\ trace' = [trace EXCEPT ![p] =
                    Append(@, HookList(call[p].new_state, "after")[call[p].i])]
    /\ Raise(p, "Error: after hook")
    /\ UNCHANGED <<mem, db, logs, now, history, accepted_at, failures, enum_field>>

\* the program with one more "after" hook registered by other code
NextClient ==
    \/ Next
    \/ ClientAfterHook(1)

SpecClient == Init /\ [][NextClient]_vars

\* the program with "after" hooks that may raise, and one more "after" hook
\* registered behind notify_delivery_success
NextAfterFail ==
    \/ Next
    \/ AfterHookRaises(1)
    \/ ClientAfterHook(1)

SpecAfterFail == Init /\ [][NextAfterFail]_vars

----------------------------------------------------------------------------
(* Two callers: each holds its own Order object of the same row, and their *)
(* calls of transition_state interleave statement by statement.            *)

ConcTargets == [value : State, is_enum : {TRUE}]

ConcKwargsSet == { Kw(Some("cash"), None, None), Kw(None, None, Some(0)) }

NextConc ==
    \/ \E p \in Procs : \E new_state \in ConcTargets, kwargs \in ConcKwargsSet :
          /\ Len(history) < MaxConcCommits
          /\ BeginTransition(p, new_state, kwargs)
    \/ \E p \in Procs : ExecuteBeforeHook(p)
    \/ \E p \in Procs : Commit(p)
    \/ \E p \in Procs : CreateLog(p)
    \/ \E p \in Procs : ExecuteAfterHook(p)
    \/ \E p \in Procs : Return(p)
    \/ \E p \in Procs : Reload(p)

SpecConc == Init /\ [][NextConc]_vars

----------------------------------------------------------------------------
(* The state field on its own: a value is assigned to the attribute, save() *)
(* prepares it for the column, a load converts the column back.            *)

\* order.state = value
Assign(value) ==
    /\ enum_field' = [enum_field EXCEPT !.value = value, !.loaded = FALSE, !.error = ""]
    /\ UNCHANGED <<mem, db, logs, now, pc, call, trace, result, history,
                   accepted_at, failures>>

\* save(): the column becomes get_prep_value(attribute), unless that raises
Save ==
    /\ LET prepared == get_prep_value(enum_field.value)
       IN  IF prepared.error # ""
           THEN enum_field' = [enum_field EXCEPT !.error = prepared.error]
           ELSE enum_field' = [enum_field EXCEPT !.column = prepared.value,
                                                 !.origin = enum_field.value,
                                                 !.error = ""]
    /\ UNCHANGED <<mem, db, logs, now, pc, call, trace, result, history,
                   accepted_at, failures>>

\* a load of the row: the attribute becomes from_db_value(column)
Refresh ==
    /\ enum_field' = [enum_field EXCEPT !.value = from_db_value(enum_field.column),
                                        !.loaded = TRUE, !.error = ""]
    /\ UNCHANGED <<mem, db, logs, now, pc, call, trace, result, history,
                   accepted_at, failures>>

InitEnum ==
    /\ OrderInit
    /\ mem[1].price = [kind |-> "Decimal", val |-> 100000]
    /\ \E value \in PyValues : enum_field = NewField(value)

NextEnum ==
    \/ \E value \in PyValues : Assign(value)
    \/ Save
    \/ Refresh

SpecEnum == InitEnum /\ [][NextEnum]_vars

----------------------------------------------------------------------------
(* Vocabulary of the properties *)

\* the adjacency table as the specification states it
Adjacency(s) ==
    CASE s = PENDING_PAYMENT -> {PROCESSING, CANCELLED}
      [] s = PROCESSING -> {OUT_FOR_DELIVERY, REFUNDED}
      [] s = OUT_FOR_DELIVERY -> {DELIVERED, REFUNDED}
      [] s = DELIVERED -> {REFUNDED}
      [] OTHER -> {}

TupleSet(t) == {t[i] : i \in 1..Len(t)}

\* this step is process p entering transition_state
IsCallStep(p) ==
    /\ pc[p] = "idle"
    /\ <<result[p], trace[p], pc[p]>>' # <<result[p], trace[p], pc[p]>>

\* this step is a "before" hook of p's call raising
IsBeforeHookFailure(p) ==
    /\ pc[p] = "before"
    /\ call[p].i <= Len(HookList(call[p].new_state, "before"))
    /\ trace'[p] # trace[p]
    /\ CallHook(HookList(call[p].new_state, "before")[call[p].i],
                mem[p], call[p].kwargs, now).error # ""

IllegalError == "ValueError: Can't transition"

----------------------------------------------------------------------------
(* C1: a call of transition_state whose target is not in the adjacency     *)
(* entry of the current state (every target when the state has no entry)   *)
(* raises the illegal-transition error, runs no hook, and leaves the       *)
(* order's state and state_changed, the row and the log as they were.      *)
C1_IllegalTransitionRejected ==
    [][\A p \in Procs :
          (IsCallStep(p) /\ result'[p].new_state \notin Adjacency(mem[p].state))
          => /\ result'[p].error = IllegalError
             /\ result'[p].old_state = mem[p].state
             /\ pc'[p] = "idle"
             /\ trace'[p] = <<>>
             /\ UNCHANGED <<mem, db, logs>>]_vars

\* an illegal target was rejected from a state that has an adjacency entry,
\* and another from a state that has none
C1_Witness ==
    /\ result[1].error = IllegalError
    /\ result[1].old_state = CANCELLED
    /\ result[1].new_state = PROCESSING
    /\ Len(logs) = 1

(* C2: one log row per accepted transition and none per rejected one: the  *)
(* log rows are, in order, the transitions that were accepted, each with   *)
(* the state held just before it, its target and its keyword arguments;    *)
(* a call that ends with an error before the commit adds no row.           *)
C2_OneRecordPerAcceptedTransition ==
    /\ [](/\ Len(logs) = Len(history) - (IF pc[1] = "log" THEN 1 ELSE 0)
          /\ \A i \in 1..Len(logs) :
                /\ logs[i].old_state = history[i].old_state
                /\ logs[i].new_state = history[i].new_state
                /\ logs[i].extra = history[i].extra
          /\ (result[1].error = "ok" =>
                /\ logs # <<>>
                /\ logs[Len(logs)].old_state = result[1].old_state
                /\ logs[Len(logs)].new_state = result[1].new_state))
    /\ [][\A p \in Procs :
             (result'[p].error \notin {"ok", "running", "none"} /\ result'[p] # result[p])
             => logs' = logs /\ history' = history]_vars

\* three transitions were accepted, with rejected calls in between
C2_Witness ==
    /\ Len(logs) = 3
    /\ pc[1] = "idle"
    /\ result[1].error = IllegalError
    /\ logs[1].extra.payment_method = Some("card")
    /\ logs[3].old_state = OUT_FOR_DELIVERY

(* C3: when a "before" hook of a legal transition raises, the call ends    *)
(* with that error at once: the hooks run are exactly the registered       *)
(* "before" hooks up to the failing one (no later "before" hook, no save,  *)
(* no log row, no "after" hook), and the order's state and state_changed,  *)
(* the row and the log keep their values.                                  *)
C3_BeforeHookFailureAborts ==
    [][\A p \in Procs :
          IsBeforeHookFailure(p)
          => /\ pc'[p] = "idle"
             /\ result'[p].error =
                   CallHook(HookList(call[p].new_state, "before")[call[p].i],
                            mem[p], call[p].kwargs, now).error
             /\ result'[p].error \notin {"ok", "running"}
             /\ trace'[p] = SubSeq(HookList(call[p].new_state, "before"), 1, call[p].i)
             /\ mem'[p].state = result[p].old_state
             /\ mem'[p].state_changed = mem[p].state_changed
             /\ UNCHANGED <<db, logs, history>>]_vars

\* the "before" hook of OUT_FOR_DELIVERY raised on an order in PROCESSING
C3_Witness ==
    /\ pc[1] = "idle"
    /\ result[1].error = "ValueError: Delivery date must be in the future"
    /\ trace[1] = <<"validate_delivery_date">>
    /\ mem[1].state = PROCESSING
    /\ db.state = PROCESSING
    /\ Len(logs) = 1

\* the persisted state is the one the log ends in
PersistedStateMatchesLog ==
    db.state = IF logs = <<>> THEN PENDING_PAYMENT ELSE logs[Len(logs)].new_state

(* C4: no transition is ever partially committed: whenever no call is      *)
(* running, also after save() or logs.create() has failed, the persisted   *)
(* state change of a transition and its log row exist both or neither.     *)
C4_NoPartialCommit ==
    pc[1] = "idle" => (Len(logs) = Len(history) /\ PersistedStateMatchesLog)

(* C5: the events of an accepted transition occur in this order: the       *)
(* "before" hooks of the target in registration order, then the save, then *)
(* the creation of the log row, then the "after" hooks of the target in    *)
(* registration order.                                                     *)
ExpectedBefore(s) ==
    CASE s = PROCESSING -> <<"validate_payment_method", "apply_discount">>
      [] s = OUT_FOR_DELIVERY -> <<"validate_delivery_date">>
      [] OTHER -> <<>>

ExpectedAfter(s) ==
    CASE s = PROCESSING -> <<"notify_payment_success">>
      [] s = OUT_FOR_DELIVERY -> <<"notify_out_for_delivery">>
      [] s = DELIVERED -> <<"notify_delivery_success">>
      [] s = CANCELLED -> <<"send_questionnaire">>
      [] s = REFUNDED -> <<"send_questionnaire">>
      [] OTHER -> <<>>

ExpectedTrace(s) == ExpectedBefore(s) \o <<"save", "log">> \o ExpectedAfter(s)

IsPrefix(a, b) == Len(a) <= Len(b) /\ a = SubSeq(b, 1, Len(a))

C5_EventOrder ==
    \A p \in {1} :
       LET target == result[p].new_state
           saved == \E i \in 1..Len(trace[p]) : trace[p][i] = "save"
           logged == \E i \in 1..Len(trace[p]) : trace[p][i] = "log"
       IN  /\ result[p].error = "running" =>
                /\ IsPrefix(trace[p], ExpectedTrace(target))
                /\ ~saved => (db.state = result[p].old_state /\ Len(logs) = Len(history))
                /\ saved => db.state = target
                /\ (saved /\ ~logged) => Len(logs) = Len(history) - 1
                /\ logged => (Len(logs) = Len(history) /\ logs[Len(logs)].new_state = target)
           /\ result[p].error = "ok" =>
                /\ trace[p] = ExpectedTrace(target)
                /\ db.state = target

\* a transition to PROCESSING with both "before" hooks ran to the end
C5_Witness ==
    /\ result[1].error = "ok"
    /\ result[1].new_state = PROCESSING
    /\ trace[1] = <<"validate_payment_method", "apply_discount", "save", "log",
                    "notify_payment_success">>
    /\ mem[1].metadata.discount = Some(10)

(* C6: get_possible_next_states returns exactly the adjacency entry of the *)
(* order's state (nothing when the state has no entry), with the shipped   *)
(* table PENDING_PAYMENT -> {PROCESSING, CANCELLED}, PROCESSING ->         *)
(* {OUT_FOR_DELIVERY, REFUNDED}, OUT_FOR_DELIVERY -> {DELIVERED, REFUNDED},*)
(* DELIVERED -> {REFUNDED}; and a call passes validation if and only if    *)
(* its target is in the adjacency entry of the current state.              *)
C6_LegalIffInAdjacency ==
    /\ [](\A p \in Procs :
             TupleSet(get_possible_next_states(mem[p])) = Adjacency(mem[p].state))
    /\ [][\A p \in Procs :
             IsCallStep(p)
             => (result'[p].error # IllegalError
                    <=> result'[p].new_state \in Adjacency(mem[p].state))]_vars

\* a call passed validation from DELIVERED, whose only successor is REFUNDED
C6_Witness ==
    /\ result[1].error = "running"
    /\ result[1].old_state = DELIVERED
    /\ result[1].new_state = REFUNDED
    /\ pc[1] = "before"

(* C7: CANCELLED and REFUNDED are terminal: once a transition into one of  *)
(* them is complete, every later call is rejected with the illegal-        *)
(* transition error whatever its target, and the state and the log never   *)
(* change again.                                                           *)
C7_TerminalStatesAreFinal ==
    [][\A p \in {1} :
          (pc[p] = "idle" /\ mem[p].state \in {CANCELLED, REFUNDED})
          => /\ pc'[p] = "idle"
             /\ mem'[p].state = mem[p].state
             /\ db'.state = db.state
             /\ logs' = logs
             /\ (IsCallStep(p) => result'[p].error = IllegalError)]_vars

\* a call was rejected on an order that reached REFUNDED through four transitions
C7_Witness ==
    /\ mem[1].state = REFUNDED
    /\ db.state = REFUNDED
    /\ Len(logs) = 4
    /\ result[1].error = IllegalError
    /\ result[1].new_state = PENDING_PAYMENT

(* C8: state_changed never decreases, every accepted transition sets it to *)
(* the time of that transition, rejected calls leave it alone, and so it   *)
(* always equals the time of the most recent accepted transition (the      *)
(* creation time while none was accepted).                                 *)
C8_StateChangedTracksAcceptedTransitions ==
    /\ [](/\ db.state_changed = (IF accepted_at = None THEN 0 ELSE accepted_at[1])
          /\ mem[1].state_changed = db.state_changed)
    /\ [][/\ db'.state_changed >= db.state_changed
          /\ history' # history => db'.state_changed = now
          /\ history' = history => db'.state_changed = db.state_changed]_vars

\* two transitions were accepted at different times and a call was rejected later
C8_Witness ==
    /\ Len(logs) = 2
    /\ accepted_at = Some(1)
    /\ db.state_changed = 1
    /\ logs[1].timestamp = 0
    /\ result[1].error = IllegalError
    /\ pc[1] = "idle"

(* C9: an order is created in PENDING_PAYMENT, and whatever calls are      *)
(* made, with targets inside or outside the enumeration, its state in      *)
(* memory and in the row is a member of Order.State.                       *)
C9_StateIsAlwaysAMember ==
    /\ mem[1].state \in State
    /\ db.state \in State
    /\ history = <<>> => (mem[1].state = PENDING_PAYMENT /\ db.state = PENDING_PAYMENT)

\* a target outside the enumeration was tried on an order that has moved on
C9_Witness ==
    /\ result[1].new_state = "bogus"
    /\ result[1].error = IllegalError
    /\ mem[1].state = OUT_FOR_DELIVERY

(* C10: when validate_payment_method has written metadata["payment_method"]*)
(* and apply_discount then raises on a discount outside 0..100, the value  *)
(* written stays in the in-memory order, while the order's state, the row  *)
(* and the log are untouched.                                              *)
C10_NoRollbackOfInMemoryMutation ==
    [][\A p \in Procs :
          (pc[p] = "before" /\ pc'[p] = "idle"
             /\ result'[p].error = "ValueError: Invalid discount percentage")
          => /\ call[p].kwargs.payment_method \in {Some("cash"), Some("card")}
             /\ mem'[p].metadata.payment_method = call[p].kwargs.payment_method
             /\ mem'[p].state = result[p].old_state
             /\ UNCHANGED <<db, logs>>]_vars

\* the in-memory order carries a payment method the row does not have
C10_Witness ==
    /\ pc[1] = "idle"
    /\ result[1].error = "ValueError: Invalid discount percentage"
    /\ trace[1] = <<"validate_payment_method", "apply_discount">>
    /\ mem[1].metadata.payment_method = Some("cash")
    /\ db.metadata.payment_method = None
    /\ db.state = PENDING_PAYMENT
    /\ logs = <<>>

(* C11: what an "after" hook changes on the order is not persisted by the  *)
(* engine: the row is written once per accepted transition, at the save    *)
(* before the "after" hooks, as the order is at that moment; nothing from  *)
(* there to the end of the call writes the row again.                      *)
C11_AfterHookMutationsNotPersisted ==
    /\ [](\A p \in {1} :
            result[p].error = "ok" =>
               Cardinality({i \in 1..Len(trace[p]) : trace[p][i] = "save"}) = 1)
    /\ [][\A p \in {1} :
            /\ (pc[p] = "before" /\ pc'[p] = "log") => db' = Row(mem'[p])
            /\ pc[p] \in {"log", "after"} => db' = db]_vars

\* the call returned and the order in memory differs from the row by what the
\* "after" hook wrote
C11_Witness ==
    /\ result[1].error = "ok"
    /\ pc[1] = "idle"
    /\ trace[1] = <<"save", "log", "notify_delivery_success", "client_after_hook">>
    /\ mem[1].metadata.discount = Some(0)
    /\ db.metadata.discount = None
    /\ Row(mem[1]) # db

(* C12: nothing guards against two callers transitioning the same order:   *)
(* a call that passed validation on its own copy always saves, whatever    *)
(* the row holds by then; when both callers' calls from copies in the same *)
(* state S were accepted, the log holds two rows whose old_state is S, one *)
(* per call, and the row holds the target of the caller that saved last.   *)
C12_NoConcurrencyControl ==
    /\ [](( /\ \A p \in Procs : pc[p] = "idle" /\ result[p].error = "ok"
            /\ result[1].old_state = result[2].old_state )
          => /\ \E i, j \in 1..Len(logs) :
                   /\ i # j
                   /\ logs[i].old_state = result[1].old_state
                   /\ logs[i].new_state = result[1].new_state
                   /\ logs[j].old_state = result[2].old_state
                   /\ logs[j].new_state = result[2].new_state
             /\ db.state = history[Len(history)].new_state
             /\ db.state \in {result[1].new_state, result[2].new_state})
    /\ [][\A p \in Procs :
             (pc[p] = "before" /\ pc'[p] # "before")
             => (call[p].i > Len(HookList(call[p].new_state, "before"))
                 => /\ pc'[p] = "log"
                    /\ db'.state = call[p].new_state)]_vars

\* both callers left PROCESSING, one to OUT_FOR_DELIVERY and one to REFUNDED:
\* the last two rows of the log are not a path of the adjacency table, and the
\* row holds the state of the first of them
C12_Witness ==
    /\ \A p \in Procs : pc[p] = "idle" /\ result[p].error = "ok"
    /\ Len(logs) = 3
    /\ logs[2].old_state = PROCESSING /\ logs[2].new_state = REFUNDED
    /\ logs[3].old_state = PROCESSING /\ logs[3].new_state = OUT_FOR_DELIVERY
    /\ db.state = REFUNDED

\* a price reduced by d percent, as a two-decimal price
ReducedPrice(price, d) == QuantizePrice((price * (100 - d)) \div 100)

\* what C13 says of the steps of a call PENDING_PAYMENT -> PROCESSING of p; the
\* discounted case is asked of orders whose price has a kind in kinds
PaymentScenario(p, kinds) ==
    LET k == call[p].kwargs
        valid_method == k.payment_method \in {Some("cash"), Some("card")}
        valid_discount == k.discount # None /\ 0 <= k.discount[1] /\ k.discount[1] <= 100
    IN  (call[p].new_state = PROCESSING /\ call[p].old_state = PENDING_PAYMENT)
        => /\ (pc[p] = "before" /\ valid_method /\ valid_discount
                  /\ mem[p].price.kind \in kinds)
              => /\ pc'[p] # "idle"
                 /\ pc'[p] = "log"
                    => /\ db'.state = PROCESSING
                       /\ db'.price = ReducedPrice(db.price, k.discount[1])
                       /\ db'.metadata.payment_method = k.payment_method
                       /\ db'.metadata.discount = k.discount
           /\ (pc[p] = "log" /\ pc'[p] # "log")
              => /\ Len(logs') = Len(logs) + 1
                 /\ logs'[Len(logs')].old_state = PENDING_PAYMENT
                 /\ logs'[Len(logs')].new_state = PROCESSING
                 /\ logs'[Len(logs')].extra = k
           /\ (pc[p] = "before" /\ ~valid_method /\ trace'[p] # trace[p])
              => /\ pc'[p] = "idle"
                 /\ result'[p].error = "ValueError: Invalid payment method"
                 /\ mem'[p].state = PENDING_PAYMENT
                 /\ UNCHANGED <<db, logs>>

(* C13: a transition PENDING_PAYMENT -> PROCESSING with payment_method     *)
(* cash or card and a discount d in 0..100 is accepted: the row gets state *)
(* PROCESSING, the old price reduced by d percent, and payment_method and  *)
(* discount in its metadata, and one log row PENDING_PAYMENT -> PROCESSING *)
(* with the keyword arguments is added; with payment_method missing or     *)
(* another value the call fails with "Invalid payment method", the state   *)
(* stays PENDING_PAYMENT and no log row is added.                          *)
C13_PaymentScenario ==
    [][PaymentScenario(1, {"Decimal", "float"})]_vars

\* the same, with the discounted case asked only of an order whose in-memory
\* price is a float
C13_PaymentScenarioFloatPrice ==
    [][PaymentScenario(1, {"float"})]_vars

\* how often orders/hooks.py registers func under (s, phase)
RegistrationCount(s, phase, func) ==
    Cardinality({n \in 1..Len(Registrations) : Registrations[n] = <<s, phase, func>>})

HookNames == {Registrations[n][3] : n \in 1..Len(Registrations)}

\* how often func ran during the last call of p, among the events lo..hi
RunsBetween(p, func, lo, hi) ==
    Cardinality({i \in lo..hi : i \in 1..Len(trace[p]) /\ trace[p][i] = func})

\* the position of the event e in the trace of the last call of p (0: absent)
PositionOf(p, e) ==
    IF \E i \in 1..Len(trace[p]) : trace[p][i] = e
    THEN CHOOSE i \in 1..Len(trace[p]) : trace[p][i] = e
    ELSE 0

(* C14: on an accepted transition every hook runs once per registration    *)
(* under (target, "before") ahead of the save and once per registration    *)
(* under (target, "after") behind the log row, and hooks registered only   *)
(* for other states do not run; a pair without registrations contributes   *)
(* no hook call; send_questionnaire, registered under (CANCELLED, after)   *)
(* and (REFUNDED, after), is in the list of both.                          *)
C14_HooksRunPerRegistration ==
    /\ HookList(CANCELLED, "after") = <<"send_questionnaire">>
    /\ HookList(REFUNDED, "after") = <<"send_questionnaire">>
    /\ \A s \in State, phase \in {"before", "after"} :
          (\A func \in HookNames : RegistrationCount(s, phase, func) = 0)
             => HookList(s, phase) = <<>>
    /\ \A p \in {1} :
          result[p].error = "ok" =>
             LET target == result[p].new_state
                 save == PositionOf(p, "save")
                 log == PositionOf(p, "log")
             IN  /\ save > 0 /\ log = save + 1
                 /\ \A func \in HookNames :
                       /\ RunsBetween(p, func, 1, save - 1)
                             = RegistrationCount(target, "before", func)
                       /\ RunsBetween(p, func, log + 1, Len(trace[p]))
                             = RegistrationCount(target, "after", func)

\* an accepted refund ran send_questionnaire, after an accepted transition to
\* PROCESSING ran both of its "before" hooks
C14_Witness ==
    /\ result[1].error = "ok"
    /\ result[1].new_state = REFUNDED
    /\ trace[1] = <<"save", "log", "send_questionnaire">>
    /\ Len(logs) >= 2
    /\ logs[1].new_state = PROCESSING
    /\ db.metadata.payment_method # None

(* C15: a member written to the column and read back is the same member;   *)
(* is_valid is true of every member and of every member's value, and false *)
(* of every other string and of values that are not strings.               *)
C15_EnumRoundTrip ==
    /\ (enum_field.loaded /\ enum_field.origin.type = "State")
          => enum_field.value = enum_field.origin
    /\ enum_field.value.type = "State"
          => /\ is_valid(enum_field.value)
             /\ get_prep_value(enum_field.value).error = ""
             /\ from_db_value(get_prep_value(enum_field.value).value) = enum_field.value
    /\ enum_field.value.type = "str"
          => (is_valid(enum_field.value) <=> enum_field.value.v \in State)
    /\ enum_field.value.type \notin {"State", "str"} => ~is_valid(enum_field.value)
    /\ enum_field.column.type = "str"
          => (is_valid(enum_field.column) <=> enum_field.column.v \in State)

\* DELIVERED (defined with a tuple: value and description) was saved as
\* "delivered" and loaded back as the member
C15_Witness ==
    /\ enum_field.loaded
    /\ enum_field.origin = PyMember("DELIVERED")
    /\ enum_field.column = PyStr("delivered")
    /\ enum_field.value = PyMember("DELIVERED")

(* C16: outside the two statements that write a transition (save, then the *)
(* log row) the log is a chain: it starts at PENDING_PAYMENT, each row     *)
(* starts where the previous one ended, every row is an edge of the        *)
(* adjacency table between two different states, and it ends at the state  *)
(* of the row (PENDING_PAYMENT when the log is empty).                     *)
C16_LogIsChain ==
    pc[1] # "log" =>
       /\ Len(logs) > 0 => logs[1].old_state = PENDING_PAYMENT
       /\ \A i \in 1..(Len(logs) - 1) : logs[i].new_state = logs[i + 1].old_state
       /\ \A i \in 1..Len(logs) :
             /\ logs[i].new_state \in Adjacency(logs[i].old_state)
             /\ logs[i].old_state # logs[i].new_state
       /\ db.state = (IF Len(logs) = 0 THEN PENDING_PAYMENT
                      ELSE logs[Len(logs)].new_state)

\* the states the table allows as the next state of s
Successors(s) == TupleSet(get_possible_next_states([state |-> s]))

\* the states exactly n allowed transitions away from s
RECURSIVE StepsFrom(_, _)
StepsFrom(s, n) ==
    IF n = 0 THEN {s}
    ELSE UNION {Successors(t) : t \in StepsFrom(s, n - 1)}

\* the states the order has been in, oldest first
Visited ==
    <<PENDING_PAYMENT>> \o [i \in 1..Len(history) |-> history[i].new_state]

(* C17: the adjacency table has no cycle and its longest path from         *)
(* PENDING_PAYMENT has 4 edges and ends in REFUNDED; an order used by one  *)
(* caller never returns to a state it has been in, accepts at most 4        *)
(* transitions and has at most 4 log rows; a state allows no next state    *)
(* exactly when it is CANCELLED or REFUNDED, and every other state has a   *)
(* next state that no "before" hook guards, so a sequence of accepted      *)
(* transitions can stop for good only in a terminal state.                 *)
C17_AcyclicAndBounded ==
    /\ \A s \in State : \A n \in 1..Cardinality(State) : s \notin StepsFrom(s, n)
    /\ StepsFrom(PENDING_PAYMENT, 4) = {REFUNDED}
    /\ StepsFrom(PENDING_PAYMENT, 5) = {}
    /\ \A s \in State : Successors(s) = {} <=> s \in {CANCELLED, REFUNDED}
    /\ \A s \in State \ {CANCELLED, REFUNDED} :
          \E t \in Successors(s) : HookList(t, "before") = <<>>
    /\ \A i, j \in 1..Len(Visited) : i # j => Visited[i] # Visited[j]
    /\ Len(history) <= 4
    /\ Len(logs) <= 4
    /\ Len(history) = 4 => db.state = REFUNDED
    /\ pc[1] = "idle" => db.state = Visited[Len(Visited)]

\* the longest life: four accepted transitions, the last one into REFUNDED
C17_Witness ==
    /\ pc[1] = "idle"
    /\ result[1].error = "ok"
    /\ Visited = <<PENDING_PAYMENT, PROCESSING, OUT_FOR_DELIVERY, DELIVERED, REFUNDED>>
    /\ Len(logs) = 4
    /\ db.state = REFUNDED

(* C18: when an "after" hook raises, the call ends with that error, the    *)
(* hooks registered behind it do not run, and the transition stays         *)
(* written: the row holds the target state and the last log row is the     *)
(* row of this transition.                                                 *)
C18_AfterHookFailureKeepsCommit ==
    \A p \in {1} :
       result[p].error = "Error: after hook" =>
          LET target == result[p].new_state
          IN  /\ pc[p] = "idle"
              /\ trace[p] = ExpectedBefore(target) \o <<"save", "log">>
                               \o <<HookList(target, "after")[1]>>
              /\ \A i \in 1..Len(trace[p]) : trace[p][i] # "client_after_hook"
              /\ db.state = target
              /\ mem[p].state = target
              /\ Len(logs) = Len(history)
              /\ logs[Len(logs)].old_state = result[p].old_state
              /\ logs[Len(logs)].new_state = target

\* notify_delivery_success raised: the hook behind it did not run, the order
\* is delivered and the third log row says so
C18_Witness ==
    /\ result[1].error = "Error: after hook"
    /\ result[1].new_state = DELIVERED
    /\ trace[1] = <<"save", "log", "notify_delivery_success">>
    /\ db.state = DELIVERED
    /\ Len(logs) = 3
    /\ logs[3].new_state = DELIVERED
    /\ mem[1].metadata.discount # Some(0)

\* the "before" hooks of a rejected call to PROCESSING ran up to apply_discount
RejectedPaymentAttempt(p) ==
    /\ result[p].new_state = PROCESSING
    /\ result[p].old_state = PENDING_PAYMENT
    /\ result[p].error \in {"ValueError: Invalid discount percentage",
                            "TypeError: Decimal * float"}

(* C19: what a rejected attempt left in the in-memory order is written by  *)
(* the next accepted transition on that object: save() writes the whole    *)
(* object.  While the call PENDING_PAYMENT -> PROCESSING is rejected by    *)
(* apply_discount, the object carries the payment method and the row does  *)
(* not; the save of the next accepted call on the unreloaded object makes  *)
(* the row equal to the object, payment method included, and no log row    *)
(* names PROCESSING.                                                       *)
C19_RejectedMutationPersistedLater ==
    /\ [](\A p \in {1} :
            (RejectedPaymentAttempt(p) /\ pc[p] = "idle" /\ Len(history) = 0)
               => /\ db.metadata.payment_method = None
                  /\ db.state = PENDING_PAYMENT
                  /\ logs = <<>>)
    /\ [][\A p \in {1} :
            (pc[p] = "before" /\ pc'[p] = "log")
               => /\ db' = Row(mem'[p])
                  /\ db'.metadata.payment_method = mem[p].metadata.payment_method
                  /\ db'.metadata.discount = mem[p].metadata.discount]_vars

\* the order was cancelled after a rejected payment attempt: the row holds the
\* payment method of the attempt, the log holds the cancellation only
C19_Witness ==
    /\ pc[1] = "idle"
    /\ result[1].error = "ok"
    /\ result[1].new_state = CANCELLED
    /\ db.state = CANCELLED
    /\ db.metadata.payment_method = Some("cash")
    /\ Len(logs) = 1
    /\ logs[1].old_state = PENDING_PAYMENT
    /\ logs[1].new_state = CANCELLED
    /\ logs[1].extra.payment_method = None

====
